---------------------------- MODULE Spec2Model ----------------------------
(***************************************************************************)
(* btle_exporter (src/main.go): the advertisement handler advScanHandler,  *)
(* the envelope walk and vendor decoders of parseAdvertisementReportData,   *)
(* the discovery map and the Prometheus counters and gauges they drive.    *)
(*                                                                         *)
(* Conventions.                                                            *)
(*  - A byte is an integer 0..255.  A Go []byte is a record holding the    *)
(*    bytes of the backing array from the slice's start up to its          *)
(*    capacity, and its length:  Len(s.bytes) = cap(s),  s.len = len(s).   *)
(*    Go checks an index against len and a slice bound against cap.        *)
(*  - A float64 is held in tenths (24.4 is 244): every float the program   *)
(*    computes is an integer or an integer divided by 10.                  *)
(*  - time.Now() is not modelled: timeOutMap and the last-seen gauge are   *)
(*    the sets of their keys.                                              *)
(*  - A Go runtime panic in the handler ends the process: pc = "panic".    *)
(***************************************************************************)
EXTENDS Integers, Sequences, FiniteSets, TLC

(* ------------------------------ bounds -------------------------------- *)

\* Advertisements delivered to the handler in one run of Spec.
MaxAdvertisements == 3

\* Bytes of backing array that may follow an advertisement's data (cap - len).
MaxSpare == 1

(* --------------------------- Go primitives ----------------------------- *)

\* const undefined = -99.9, in tenths.
undefined == -999

\* float64(n) for an integer n, in tenths.
Float64(n) == 10 * n

\* f / 10 for a float f holding an integer, in tenths.
Div10(f) == f \div 10

\* advData[i], Go's zero-based index.
At(s, i) == s[i + 1]

\* (int(hi) << 8) + int(lo): Go's int is 64 bits wide, nothing wraps.
WordSwapped(hi, lo) == (lo * 256) + hi
Word(hi, lo) == (hi * 256) + lo

(* ----------------------------- SensorData ------------------------------ *)

\* sensorData := &SensorData{} with Model and the three readings set.
NewSensorData ==
    [ID |-> 0, Type |-> 0, Model |-> "Unknown", ModelID |-> 0,
     TemperatureCelcius |-> undefined,
     HumidityPercent |-> undefined,
     BatteryPercent |-> undefined]

\* The condition that lets the Xiaomi branch run.
XiaomiMatchFrom17(advDataLength, advData) ==
    /\ advDataLength >= 17
    /\ At(advData, 0) = 149
    /\ At(advData, 1) = 254
XiaomiMatch(advDataLength, advData) ==
    /\ advDataLength >= 18
    /\ At(advData, 0) = 149
    /\ At(advData, 1) = 254

\* The condition that lets the ATC branch run.
ATCMatch(advDataLength, advData) ==
    /\ advDataLength >= 16
    /\ At(advData, 0) = 26
    /\ At(advData, 1) = 24

\* Model, Type, ID and ModelID of a Xiaomi element.
XiaomiHeader(sd, advData) ==
    LET ModelID == Word(At(advData, 5), At(advData, 4))
    IN  [sd EXCEPT !.Model = IF ModelID = 426 THEN "LYWSDCGQ"
                             ELSE IF ModelID = 1115 THEN "Unsupported"
                             ELSE "Error",
                   !.Type = At(advData, 13),
                   !.ID = At(advData, 6),
                   !.ModelID = ModelID]

\* The readings of a Xiaomi element, by frame type, data_length and length.
XiaomiSubFrameLoose(sd, advDataLength, advData) ==
    LET data_length == At(advData, 15)
        w16 == Div10(Float64(Word(At(advData, 17), At(advData, 16))))
        w18 == Div10(Float64(Word(At(advData, 19), At(advData, 18))))
    IN  IF sd.Type = 13
        THEN IF data_length = 4 /\ advDataLength = 21
             THEN [sd EXCEPT !.TemperatureCelcius = w16, !.HumidityPercent = w18]
             ELSE IF data_length = 4 /\ advDataLength = 25
             THEN [sd EXCEPT !.TemperatureCelcius = w16, !.HumidityPercent = w18,
                             !.BatteryPercent = Float64(At(advData, 23))]
             ELSE sd
        ELSE IF sd.Type = 10 /\ data_length = 1 /\ advDataLength = 18
        THEN [sd EXCEPT !.BatteryPercent = Float64(At(advData, 16))]
        ELSE IF sd.Type = 6
        THEN IF advDataLength = 19
             THEN [sd EXCEPT !.HumidityPercent = w16]
             ELSE IF data_length = 2 /\ advDataLength = 23
             THEN [sd EXCEPT !.HumidityPercent = w16,
                             !.BatteryPercent = Float64(At(advData, 21))]
             ELSE sd
        ELSE IF sd.Type = 4
        THEN IF data_length = 2 /\ advDataLength = 19
             THEN [sd EXCEPT !.TemperatureCelcius = w16]
             ELSE IF data_length = 2 /\ advDataLength = 23
             THEN [sd EXCEPT !.TemperatureCelcius = w16,
                             !.BatteryPercent = Float64(At(advData, 21))]
             ELSE sd
        ELSE sd
XiaomiSubFrame(sd, advDataLength, advData) ==
    LET data_length == At(advData, 15)
        w16 == Div10(Float64(Word(At(advData, 17), At(advData, 16))))
        w18 == Div10(Float64(Word(At(advData, 19), At(advData, 18))))
    IN  IF sd.Type = 13
        THEN IF data_length = 4 /\ advDataLength = 21
             THEN [sd EXCEPT !.TemperatureCelcius = w16, !.HumidityPercent = w18]
             ELSE IF data_length = 4 /\ advDataLength = 25
             THEN [sd EXCEPT !.TemperatureCelcius = w16, !.HumidityPercent = w18,
                             !.BatteryPercent = Float64(At(advData, 23))]
             ELSE sd
        ELSE IF sd.Type = 10 /\ data_length = 1 /\ advDataLength = 18
        THEN [sd EXCEPT !.BatteryPercent = Float64(At(advData, 16))]
        ELSE IF sd.Type = 6
        THEN IF data_length = 2 /\ advDataLength = 19
             THEN [sd EXCEPT !.HumidityPercent = w16]
             ELSE IF data_length = 2 /\ advDataLength = 23
             THEN [sd EXCEPT !.HumidityPercent = w16,
                             !.BatteryPercent = Float64(At(advData, 21))]
             ELSE sd
        ELSE IF sd.Type = 4
        THEN IF data_length = 2 /\ advDataLength = 19
             THEN [sd EXCEPT !.TemperatureCelcius = w16]
             ELSE IF data_length = 2 /\ advDataLength = 23
             THEN [sd EXCEPT !.TemperatureCelcius = w16,
                             !.BatteryPercent = Float64(At(advData, 21))]
             ELSE sd
        ELSE sd

\* The ATC branch: fixed layout.
DecodeATC(sd, advData) ==
    [sd EXCEPT !.ID = At(advData, 14),
               !.Model = "ATC",
               !.TemperatureCelcius =
                   Div10(Float64(Word(At(advData, 8), At(advData, 9)))),
               !.HumidityPercent = Float64(At(advData, 10)),
               !.BatteryPercent = Float64(At(advData, 11))]

\* The body of one loop iteration after advData is sliced: sensorData is
\* updated in place, never reset between elements.
DecodeElement(sd, advDataLength, advDataModel, advData) ==
    IF advDataModel = 22
    THEN IF XiaomiMatch(advDataLength, advData)
         THEN XiaomiSubFrame(XiaomiHeader(sd, advData), advDataLength, advData)
         ELSE IF ATCMatch(advDataLength, advData)
         THEN DecodeATC(sd, advData)
         ELSE sd
    ELSE sd

\* The loop condition.
LoopCond(packetPointer, a) == packetPointer < a.len - 1

\* advRawData[packetPointer+2 : packetPointer+advDataLength+2] is in range:
\* Go checks low <= high <= cap.
SliceInRange(a, packetPointer, advDataLength) ==
    packetPointer + advDataLength + 2 <= Len(a.bytes)

\* The slice taken, zero-based half-open [low, high).
Slice(bytes, low, high) == SubSeq(bytes, low + 1, high)

\* packetPointer = packetPointer + advDataLength + 1
NextPointerNoTypeByte(packetPointer, advDataLength) ==
    packetPointer + advDataLength
NextPointer(packetPointer, advDataLength) ==
    packetPointer + advDataLength + 1

\* The error parseAdvertisementReportData returns: always nil.
ParseError == "nil"

(* ----------------------- advertisements scanned ------------------------ *)

\* Device addresses, as a.Addr().String() gives them.
Addrs == {"a4:c1:38:d0:2c:ec", "58:2d:34:3a:10:7b"}

\* namesMap after loadNamesCSVFile of the README's example file.
namesMap == [mac \in {"a4:c1:38:d0:2c:ec"} |-> "Unknown"]

\* Signal strengths reported by the radio.
RSSIs == {-46}

\* Bytes found in the backing array behind an advertisement's data.
SpareBytes == {0, 197}

RECURSIVE SeqsUpTo(_, _)
SeqsUpTo(S, n) ==
    IF n = 0 THEN {<<>>}
    ELSE LET shorter == SeqsUpTo(S, n - 1)
         IN  shorter \cup {Append(s, b) : s \in {t \in shorter : Len(t) = n - 1}, b \in S}

Spares == SeqsUpTo(SpareBytes, MaxSpare)

\* A Flags element (length 2, type 0x01).
FlagsElement == <<2, 1, 6>>

\* An ATC service-data element: length 16, type 0x16, UUID 1A 18, six
\* address bytes, temperature (2 bytes), humidity, battery, millivolts
\* (2 bytes), counter.
ATCElement(t) ==
    <<16, 22, 26, 24, 164, 193, 56, 208, 44, 236>> \o t \o <<60, 82, 11, 184, 7>>

ATCTemperatures == {<<0, 244>>, <<255, 56>>}

\* The 24 bytes a Xiaomi service-data payload is cut from: UUID 95 FE, frame
\* control, model id (low byte first), sequence, six address bytes, frame
\* type, 0x10, data length, then eight value bytes.
XiaomiPayload(mid, ft, sub, vals) ==
    <<149, 254, 80, 32, mid[1], mid[2], 9, 123, 16, 58, 52, 45, 88, ft, 16, sub>>
        \o vals

\* A Xiaomi service-data element of declared length L (type byte included).
XiaomiElement(L, mid, ft, sub, vals) ==
    <<L, 22>> \o SubSeq(XiaomiPayload(mid, ft, sub, vals), 1, L - 1)

XiaomiModelIDs == {<<170, 1>>, <<91, 4>>, <<71, 3>>}
XiaomiLengths == {17, 18, 19, 21, 23, 25}
XiaomiFrameTypes == {13, 10, 6, 4, 7}
XiaomiDataLengths == {1, 2, 4}
XiaomiValues == {<<244, 0, 60, 2, 10, 82, 1, 100>>,
                 <<56, 255, 154, 129, 10, 16, 1, 90>>}

XiaomiElements ==
    {XiaomiElement(L, mid, ft, sub, vals) :
        L \in XiaomiLengths, mid \in XiaomiModelIDs, ft \in XiaomiFrameTypes,
        sub \in XiaomiDataLengths, vals \in XiaomiValues}

\* A ble.Advertisement: address, signal strength and Data() as backing
\* bytes plus length.
Advertisement(addr, rssi, body, spare) ==
    [addr |-> addr, rssi |-> rssi, bytes |-> body \o spare, len |-> Len(body)]

AdvertisementsOf(bodies, spares) ==
    {Advertisement(addr, rssi, body, spare) :
        addr \in Addrs, rssi \in RSSIs, body \in bodies, spare \in spares}

\* Payloads the handler is run on as a sequence (Spec).
ScanBodies ==
    { <<>>,
      FlagsElement,
      FlagsElement \o <<0, 0>>,
      FlagsElement \o <<9, 22, 149>>,
      FlagsElement \o ATCElement(<<0, 244>>),
      ATCElement(<<255, 56>>) \o <<0>>,
      XiaomiElement(19, <<170, 1>>, 4, 2, <<244, 0, 60, 2, 10, 82, 1, 100>>),
      XiaomiElement(21, <<170, 1>>, 13, 4, <<56, 255, 154, 129, 10, 16, 1, 90>>),
      XiaomiElement(18, <<91, 4>>, 10, 1, <<244, 0, 60, 2, 10, 82, 1, 100>>),
      XiaomiElement(21, <<71, 3>>, 7, 4, <<244, 0, 60, 2, 10, 82, 1, 100>>),
      ATCElement(<<0, 244>>)
          \o XiaomiElement(19, <<170, 1>>, 4, 2, <<56, 255, 154, 129, 10, 16, 1, 90>>) }

\* Payloads each decoded once (DecodeSpec): every Xiaomi element alone,
\* after a Flags element, after an ATC element and before one; ATC elements;
\* short, padded and truncated payloads.
DecodeBodies ==
    ScanBodies
    \cup XiaomiElements
    \cup {FlagsElement \o x : x \in XiaomiElements}
    \cup {ATCElement(<<0, 244>>) \o x : x \in XiaomiElements}
    \cup {x \o ATCElement(<<255, 56>>) : x \in XiaomiElements}
    \cup {ATCElement(t) : t \in ATCTemperatures}
    \cup {ATCElement(t) \o <<0, 0>> : t \in ATCTemperatures}
    \cup {<<0>>, <<0, 0, 0>>, <<1, 22, 3>>, <<3, 22, 149, 254>>,
          <<4, 22, 149, 254, 1, 0>>, <<15, 22, 26, 24>>, <<255, 22>>}

\* The scan stream: behind the data lies the event's RSSI byte, repeated.
ScanAdvertisements ==
    AdvertisementsOf(ScanBodies, {s \in Spares : \A i \in 1..Len(s) : s[i] = 197})

\* The decode set: behind the data lies any of the spare bytes.
DecodeAdvertisements == AdvertisementsOf(DecodeBodies, Spares)

(* ------------------------------- state --------------------------------- *)

VARIABLES
    pc,              \* "idle" (between advertisements), "walk" (in the loop
                     \* of parseAdvertisementReportData), "panic" (crashed)
    a,               \* the advertisement being handled
    packetPointer, advDataLength, advDataModel, advData, sensorData,
                     \* locals of parseAdvertisementReportData
    err,             \* the error advScanHandler last received
    lastLog,         \* what advScanHandler last logged
    flagDebug, flagVerbose,
    discoverMap, timeOutMap,
    metricsAdvertisementCount, metricsAdvertisementSupportedCount,
    metricsDeviceCount, metricsDeviceSupportedCount,
    metricsDeviceTemperatureGauge, metricsDeviceHumidityGauge,
    metricsDeviceBatteryGauge, metricsDeviceSignalGauge,
    metricsDeviceAdvertisementCount, metricsDeviceAdvertisementLastSeenGauge

locals == <<packetPointer, advDataLength, advDataModel, advData, sensorData>>
flags == <<flagDebug, flagVerbose>>
maps == <<discoverMap, timeOutMap>>
counters == <<metricsAdvertisementCount, metricsAdvertisementSupportedCount,
              metricsDeviceCount, metricsDeviceSupportedCount>>
vectors == <<metricsDeviceTemperatureGauge, metricsDeviceHumidityGauge,
             metricsDeviceBatteryGauge, metricsDeviceSignalGauge,
             metricsDeviceAdvertisementCount,
             metricsDeviceAdvertisementLastSeenGauge>>
vars == <<pc, a, locals, err, lastLog, flags, maps, counters, vectors>>

\* A metric vector with no series yet.
EmptyVec == [l \in {} |-> 0]

\* After parseFlags (debug turns verbose on) and the package-level vars.
Init ==
    /\ pc = "idle"
    /\ a = [addr |-> "", rssi |-> 0, bytes |-> <<>>, len |-> 0]
    /\ packetPointer = 0
    /\ advDataLength = 0
    /\ advDataModel = 0
    /\ advData = <<>>
    /\ sensorData = NewSensorData
    /\ err = "nil"
    /\ lastLog = "none"
    /\ flagDebug \in BOOLEAN
    /\ flagVerbose \in BOOLEAN
    /\ flagDebug => flagVerbose
    /\ discoverMap = [mac \in Addrs |-> FALSE]
    /\ timeOutMap = {}
    /\ metricsAdvertisementCount = 0
    /\ metricsAdvertisementSupportedCount = 0
    /\ metricsDeviceCount = 0
    /\ metricsDeviceSupportedCount = 0
    /\ metricsDeviceTemperatureGauge = EmptyVec
    /\ metricsDeviceHumidityGauge = EmptyVec
    /\ metricsDeviceBatteryGauge = EmptyVec
    /\ metricsDeviceSignalGauge = EmptyVec
    /\ metricsDeviceAdvertisementCount = EmptyVec
    /\ metricsDeviceAdvertisementLastSeenGauge = {}

(* ------------------------- metrics primitives -------------------------- *)

\* getMacName: a missing key of namesMap gives the empty string.
getMacName(mac) == IF mac \in DOMAIN namesMap THEN namesMap[mac] ELSE ""

\* prometheus.Labels{"mac", "name", "model"}
Label(mac, model) == <<mac, getMacName(mac), model>>

\* GaugeVec.With(label).Set(v): the series is created on first use.
GaugeSet(vec, label, v) ==
    [l \in DOMAIN vec \cup {label} |-> IF l = label THEN v ELSE vec[l]]

\* CounterVec.With(label).Inc()
CounterInc(vec, label) ==
    [l \in DOMAIN vec \cup {label} |->
        IF l = label
        THEN (IF label \in DOMAIN vec THEN vec[label] ELSE 0) + 1
        ELSE vec[l]]

\* The guard on each reading: v != undefined.
PresentAlways(v) == TRUE
Present(v) == v # undefined

\* A gauge after "if v != undefined { gauge.With(label).Set(v) }".
Publish(vec, label, v) == IF Present(v) THEN GaugeSet(vec, label, v) ELSE vec

\* !discoverMap[a.Addr().String()] || flagDebug
ShouldEmitEveryTime(mac) == TRUE
ShouldEmitDetailedLog(mac) == ~discoverMap[mac] \/ flagDebug

\* Model is none of "Unknown", "Error", "Unsupported".
Decodable(model) == model \notin {"Unknown", "Error", "Unsupported"}

(* ------------------------------ actions -------------------------------- *)

\* ble.Scan delivers one advertisement of ads to advScanHandler, which
\* calls parseAdvertisementReportData: the locals are initialised.  At most
\* max advertisements are delivered.
Scan(ads, max) ==
    /\ pc = "idle"
    /\ metricsAdvertisementCount < max
    /\ \E adv \in ads : a' = adv
    /\ pc' = "walk"
    /\ packetPointer' = 0
    /\ advDataLength' = 0
    /\ advDataModel' = 0
    /\ advData' = <<>>
    /\ sensorData' = NewSensorData
    /\ UNCHANGED <<err, lastLog, flags, maps, counters, vectors>>

\* One iteration of the loop whose slice expression is in range.
WalkElement ==
    /\ pc = "walk"
    /\ LoopCond(packetPointer, a)
    /\ LET length == At(a.bytes, packetPointer)
           type == At(a.bytes, packetPointer + 1)
       IN  /\ SliceInRange(a, packetPointer, length)
           /\ advDataLength' = length
           /\ advDataModel' = type
           /\ advData' = Slice(a.bytes, packetPointer + 2,
                               packetPointer + length + 2)
           /\ sensorData' = DecodeElement(sensorData, length, type, advData')
           /\ packetPointer' = NextPointer(packetPointer, length)
    /\ UNCHANGED <<pc, a, err, lastLog, flags, maps, counters, vectors>>

\* One iteration whose slice expression is out of range: a runtime panic,
\* which nothing recovers.
WalkPanic ==
    /\ pc = "walk"
    /\ LoopCond(packetPointer, a)
    /\ LET length == At(a.bytes, packetPointer)
           type == At(a.bytes, packetPointer + 1)
       IN  /\ ~SliceInRange(a, packetPointer, length)
           /\ advDataLength' = length
           /\ advDataModel' = type
    /\ pc' = "panic"
    /\ UNCHANGED <<a, packetPointer, advData, sensorData, err, lastLog,
                   flags, maps, counters, vectors>>

\* The loop ends, parseAdvertisementReportData returns (sensorData, nil) and
\* advScanHandler runs to its end.
Handle ==
    /\ pc = "walk"
    /\ ~LoopCond(packetPointer, a)
    /\ pc' = "idle"
    /\ err' = ParseError
    /\ UNCHANGED <<a, locals, flags>>
    /\ IF ParseError # "nil"
       THEN /\ IF ShouldEmitDetailedLog(a.addr)
               THEN /\ lastLog' = "error"
                    /\ discoverMap' = [discoverMap EXCEPT ![a.addr] = TRUE]
               ELSE /\ lastLog' = "none"
                    /\ UNCHANGED discoverMap
            /\ UNCHANGED <<timeOutMap, counters, vectors>>
       ELSE LET label == Label(a.addr, sensorData.Model)
                known == sensorData.Model # "Unknown"
                emit == ShouldEmitDetailedLog(a.addr)
                decoded == Decodable(sensorData.Model)
            IN  /\ metricsDeviceTemperatureGauge' =
                       IF known
                       THEN Publish(metricsDeviceTemperatureGauge, label,
                                    sensorData.TemperatureCelcius)
                       ELSE metricsDeviceTemperatureGauge
                /\ metricsDeviceHumidityGauge' =
                       IF known
                       THEN Publish(metricsDeviceHumidityGauge, label,
                                    sensorData.HumidityPercent)
                       ELSE metricsDeviceHumidityGauge
                /\ metricsDeviceBatteryGauge' =
                       IF known
                       THEN Publish(metricsDeviceBatteryGauge, label,
                                    sensorData.BatteryPercent)
                       ELSE metricsDeviceBatteryGauge
                /\ metricsDeviceAdvertisementCount' =
                       IF known
                       THEN CounterInc(metricsDeviceAdvertisementCount, label)
                       ELSE metricsDeviceAdvertisementCount
                /\ metricsDeviceSignalGauge' =
                       IF known
                       THEN GaugeSet(metricsDeviceSignalGauge, label,
                                     Float64(a.rssi))
                       ELSE metricsDeviceSignalGauge
                /\ metricsDeviceAdvertisementLastSeenGauge' =
                       IF known
                       THEN metricsDeviceAdvertisementLastSeenGauge \cup {label}
                       ELSE metricsDeviceAdvertisementLastSeenGauge
                /\ metricsAdvertisementSupportedCount' =
                       IF known
                       THEN metricsAdvertisementSupportedCount + 1
                       ELSE metricsAdvertisementSupportedCount
                /\ timeOutMap' = timeOutMap \cup {a.addr}
                /\ metricsAdvertisementCount' = metricsAdvertisementCount + 1
                /\ lastLog' = IF ~emit THEN "none"
                              ELSE IF decoded THEN "sensor"
                              ELSE IF flagVerbose THEN "raw"
                              ELSE "quiet"
                /\ metricsDeviceSupportedCount' =
                       IF emit /\ decoded
                       THEN metricsDeviceSupportedCount + 1
                       ELSE metricsDeviceSupportedCount
                /\ discoverMap' =
                       IF emit
                       THEN [discoverMap EXCEPT ![a.addr] = TRUE]
                       ELSE discoverMap
                /\ metricsDeviceCount' =
                       IF emit
                       THEN metricsDeviceCount + 1
                       ELSE metricsDeviceCount

\* The scan loop over a stream of advertisements.
Next ==
    \/ Scan(ScanAdvertisements, MaxAdvertisements)
    \/ WalkElement
    \/ WalkPanic
    \/ Handle

Spec == Init /\ [][Next]_vars

\* The handler run once on each payload of the decode set.
DecodeNext ==
    \/ Scan(DecodeAdvertisements, 1)
    \/ WalkElement
    \/ WalkPanic
    \/ Handle

DecodeSpec == Init /\ [][DecodeNext]_vars

\* DecodeSpec, where a handler that was called runs on: the walk and the
\* handler are sequential code that nothing pre-empts for ever.
FairDecodeSpec ==
    DecodeSpec /\ WF_vars(WalkElement) /\ WF_vars(WalkPanic) /\ WF_vars(Handle)

(* ------------------------ vocabulary of the claims ---------------------- *)

\* The cursors at which the length-prefixed structure of adv puts an element.
RECURSIVE ElementStartsFrom(_, _)
ElementStartsFrom(adv, p) ==
    IF p < adv.len - 1
    THEN {p} \cup ElementStartsFrom(adv, p + At(adv.bytes, p) + 1)
    ELSE {}

ElementStarts(adv) == ElementStartsFrom(adv, 0)

\* Every element lies inside the data (the last may end exactly at its end).
WellFormed(adv) ==
    \A p \in ElementStarts(adv) : p + At(adv.bytes, p) + 1 <= adv.len

\* Some element's declared length runs past the end of the data.
Malformed(adv) ==
    \E p \in ElementStarts(adv) : p + At(adv.bytes, p) + 1 > adv.len

\* An iteration of the walk has just run to its end.
Iterated == pc # "panic" /\ packetPointer > 0

\* A step that is one full iteration of the walk.
IterationStep == pc = "walk" /\ pc' = "walk"

\* A step in which advScanHandler finishes with an advertisement.
HandleStep == pc = "walk" /\ pc' = "idle"

\* The element just walked is service data carrying the Xiaomi signature.
LastIsXiaomiSigned ==
    /\ Iterated
    /\ advDataModel = 22
    /\ Len(advData) >= 2
    /\ advData[1] = 149
    /\ advData[2] = 254

\* The element just walked is service data carrying the ATC signature.
LastIsATC ==
    /\ Iterated
    /\ advDataModel = 22
    /\ advDataLength >= 16
    /\ advData[1] = 26
    /\ advData[2] = 24

\* The readings of a SensorData that are present.
PresentFields(sd) ==
    {f \in {"TemperatureCelcius", "HumidityPercent", "BatteryPercent"} :
        sd[f] # undefined}

\* A big-endian signed 16-bit integer, high byte first.
SignedBE16(hi, lo) ==
    LET u == hi * 256 + lo IN IF u >= 32768 THEN u - 65536 ELSE u

(* -------------------------------- C1 ----------------------------------- *)

\* C1 (as claimed): an advertisement in which an element's declared length
\* runs past the end of the data never panics the process; the handler is
\* handed an error for it.
C1_OverrunIsDecodeFailure ==
    Malformed(a) => /\ pc # "panic"
                    /\ (pc = "idle" => err # "nil")

(* -------------------------------- C2 ----------------------------------- *)

\* C2: the walk starts at cursor 0, every iteration is entered with
\* cursor < len - 1 and moves the cursor forward by length + 1 (at least 1),
\* and every walk ends: by the loop condition, or by the runtime panic of a
\* slice out of range.
C2_WalkTerminates ==
    /\ [][/\ (pc # "walk" /\ pc' = "walk" => packetPointer' = 0)
          /\ (IterationStep =>
                /\ packetPointer < a.len - 1
                /\ advDataLength' = At(a.bytes, packetPointer)
                /\ packetPointer' = packetPointer + advDataLength' + 1
                /\ packetPointer' > packetPointer)]_vars
    /\ ((pc = "walk") ~> (pc # "walk"))

\* A walk that met a zero length byte and ended by the loop condition.
C2_Witness ==
    /\ pc = "idle"
    /\ packetPointer > 0
    /\ advDataLength = 0
    /\ packetPointer >= a.len - 1

(* -------------------------------- C3 ----------------------------------- *)

\* The decode table: the readings present for (frameType, subPayloadLength,
\* elementLength), and the offset of the battery byte when there is one.
C3_Table(ft, sub, L) ==
    IF ft = 13 /\ sub = 4 /\ L = 21 THEN {"TemperatureCelcius", "HumidityPercent"}
    ELSE IF ft = 13 /\ sub = 4 /\ L = 25
    THEN {"TemperatureCelcius", "HumidityPercent", "BatteryPercent"}
    ELSE IF ft = 10 /\ sub = 1 /\ L = 18 THEN {"BatteryPercent"}
    ELSE IF ft = 6 /\ sub = 2 /\ L = 19 THEN {"HumidityPercent"}
    ELSE IF ft = 6 /\ sub = 2 /\ L = 23 THEN {"HumidityPercent", "BatteryPercent"}
    ELSE IF ft = 4 /\ sub = 2 /\ L = 19 THEN {"TemperatureCelcius"}
    ELSE IF ft = 4 /\ sub = 2 /\ L = 23 THEN {"TemperatureCelcius", "BatteryPercent"}
    ELSE {}

C3_BatteryOffset(ft, L) == IF ft = 13 THEN 23 ELSE IF ft = 10 THEN 16 ELSE 21

\* C3: an iteration that decodes a Xiaomi service-data element (signature
\* 95 FE, declared length at least 18) into a fresh SensorData leaves exactly
\* the readings of the decode table present, the battery taken from the
\* table's offset, and the model Error, LYWSDCGQ or Unsupported by modelID.
C3_XiaomiDecodeTable ==
    [][(/\ IterationStep
        /\ sensorData = NewSensorData
        /\ advDataModel' = 22
        /\ advDataLength' >= 18
        /\ advData'[1] = 149
        /\ advData'[2] = 254)
       => LET ft == At(advData', 13)
              sub == At(advData', 15)
              mid == At(advData', 5) * 256 + At(advData', 4)
              fields == C3_Table(ft, sub, advDataLength')
          IN  /\ PresentFields(sensorData') = fields
              /\ "BatteryPercent" \in fields =>
                    sensorData'.BatteryPercent =
                        10 * At(advData', C3_BatteryOffset(ft, advDataLength'))
              /\ sensorData'.Model =
                    IF mid = 426 THEN "LYWSDCGQ"
                    ELSE IF mid = 1115 THEN "Unsupported"
                    ELSE "Error"]_vars

\* The row (0x04, 2, 23) decoded from the first element of an advertisement.
C3_Witness ==
    /\ pc = "idle"
    /\ a.len > 0
    /\ a.bytes[1] = 23
    /\ LastIsXiaomiSigned
    /\ advDataLength = 23
    /\ At(advData, 13) = 4
    /\ sensorData.Model = "LYWSDCGQ"
    /\ PresentFields(sensorData) = {"TemperatureCelcius", "BatteryPercent"}

(* -------------------------------- C4 ----------------------------------- *)

\* The element just walked is a Xiaomi element of a table row that carries
\* a 16-bit value at offsets 16-17.
C4_XiaomiHas16(ft) ==
    /\ LastIsXiaomiSigned
    /\ advDataLength >= 18
    /\ At(advData, 13) = ft
    /\ \/ ft = 13 /\ At(advData, 15) = 4 /\ advDataLength \in {21, 25}
       \/ ft \in {4, 6} /\ At(advData, 15) = 2 /\ advDataLength \in {19, 23}

\* C4 (as claimed): every 16-bit measurement is a big-endian signed 16-bit
\* integer divided by 10, the byte at the lower offset being the high byte.
C4_BigEndianSigned ==
    /\ C4_XiaomiHas16(13) =>
          /\ sensorData.TemperatureCelcius =
                 SignedBE16(At(advData, 16), At(advData, 17))
          /\ sensorData.HumidityPercent =
                 SignedBE16(At(advData, 18), At(advData, 19))
    /\ C4_XiaomiHas16(4) =>
          sensorData.TemperatureCelcius =
              SignedBE16(At(advData, 16), At(advData, 17))
    /\ C4_XiaomiHas16(6) =>
          sensorData.HumidityPercent =
              SignedBE16(At(advData, 16), At(advData, 17))
    /\ LastIsATC =>
          sensorData.TemperatureCelcius =
              SignedBE16(At(advData, 8), At(advData, 9))

\* C4 (amended): every 16-bit measurement is an unsigned 16-bit integer
\* divided by 10, never negative; in a Xiaomi element the byte at the lower
\* offset is the low byte, in an ATC element it is the high byte.
C4_UnsignedByVendor ==
    /\ C4_XiaomiHas16(13) =>
          /\ sensorData.TemperatureCelcius =
                 At(advData, 17) * 256 + At(advData, 16)
          /\ sensorData.HumidityPercent =
                 At(advData, 19) * 256 + At(advData, 18)
    /\ C4_XiaomiHas16(4) =>
          sensorData.TemperatureCelcius = At(advData, 17) * 256 + At(advData, 16)
    /\ C4_XiaomiHas16(6) =>
          sensorData.HumidityPercent = At(advData, 17) * 256 + At(advData, 16)
    /\ LastIsATC =>
          sensorData.TemperatureCelcius = At(advData, 8) * 256 + At(advData, 9)
    /\ (C4_XiaomiHas16(13) \/ C4_XiaomiHas16(4) \/ LastIsATC) =>
          sensorData.TemperatureCelcius >= 0

\* A Xiaomi temperature whose raw value is at least 0x8000, read as positive.
C4_Witness ==
    /\ C4_XiaomiHas16(13)
    /\ At(advData, 17) >= 128
    /\ sensorData.TemperatureCelcius >= 32768

(* -------------------------------- C5 ----------------------------------- *)

\* The three reading gauges of the metrics surface paired with the field of
\* SensorData each one publishes.
C5_NoSentinel(vec) == \A l \in DOMAIN vec : vec[l] # undefined

\* What the handler may do to a gauge for a reading v under label l: nothing
\* when the reading is absent or the model Unknown, else set l's series to v.
C5_Update(vec, vecNext, l, v, model) ==
    IF v = undefined \/ model = "Unknown"
    THEN vecNext = vec
    ELSE /\ DOMAIN vecNext = DOMAIN vec \cup {l}
         /\ vecNext[l] = v
         /\ \A k \in DOMAIN vec \ {l} : vecNext[k] = vec[k]

\* C5: no temperature, humidity or battery gauge ever holds the absent
\* sentinel; the handler leaves the gauge of an absent reading as it was and
\* sets the gauge of a present reading, and nothing else changes a gauge.
C5_AbsentNeverPublished ==
    /\ [](/\ C5_NoSentinel(metricsDeviceTemperatureGauge)
          /\ C5_NoSentinel(metricsDeviceHumidityGauge)
          /\ C5_NoSentinel(metricsDeviceBatteryGauge))
    /\ [][IF HandleStep
          THEN LET l == <<a.addr, getMacName(a.addr), sensorData.Model>>
               IN  /\ C5_Update(metricsDeviceTemperatureGauge,
                                metricsDeviceTemperatureGauge', l,
                                sensorData.TemperatureCelcius, sensorData.Model)
                   /\ C5_Update(metricsDeviceHumidityGauge,
                                metricsDeviceHumidityGauge', l,
                                sensorData.HumidityPercent, sensorData.Model)
                   /\ C5_Update(metricsDeviceBatteryGauge,
                                metricsDeviceBatteryGauge', l,
                                sensorData.BatteryPercent, sensorData.Model)
          ELSE UNCHANGED <<metricsDeviceTemperatureGauge,
                           metricsDeviceHumidityGauge,
                           metricsDeviceBatteryGauge>>]_vars

\* A device whose humidity gauge holds an earlier value has just sent a
\* reading with temperature present and humidity absent.
C5_Witness ==
    /\ pc = "idle"
    /\ sensorData.Model = "LYWSDCGQ"
    /\ sensorData.TemperatureCelcius # undefined
    /\ sensorData.HumidityPercent = undefined
    /\ <<a.addr, getMacName(a.addr), "LYWSDCGQ">>
           \in DOMAIN metricsDeviceHumidityGauge
    /\ metricsDeviceTemperatureGauge[<<a.addr, getMacName(a.addr), "LYWSDCGQ">>]
           = sensorData.TemperatureCelcius

(* -------------------------------- C6 ----------------------------------- *)

\* C6 (as claimed): device_count and device_supported_count move only when
\* the handler finishes the first advertisement of an address whose model is
\* decodable, then by one, and both do so at every such advertisement.
C6_CountedOncePerAddress ==
    [][LET first == /\ HandleStep
                    /\ ~discoverMap[a.addr]
                    /\ Decodable(sensorData.Model)
       IN  /\ metricsDeviceCount' =
                 IF first THEN metricsDeviceCount + 1 ELSE metricsDeviceCount
           /\ metricsDeviceSupportedCount' =
                 IF first THEN metricsDeviceSupportedCount + 1
                 ELSE metricsDeviceSupportedCount]_vars

(* -------------------------------- C7 ----------------------------------- *)

\* C7: with debug off, the handler takes its first-sighting branch (logging
\* or not, as verbose says) exactly for the first advertisement it finishes
\* for an address, whatever other addresses came in between; and an entry of
\* discoverMap that is true stays true.
C7_FirstSightingOnce ==
    [][/\ (HandleStep /\ ~flagDebug) =>
              ((lastLog' # "none") <=> (a.addr \notin timeOutMap))
       /\ \A mac \in Addrs : discoverMap[mac] => discoverMap'[mac]]_vars

\* A third advertisement, from an address seen before, with the other
\* address seen in between, not taking the first-sighting branch.
C7_Witness ==
    /\ pc = "idle"
    /\ ~flagDebug
    /\ lastLog = "none"
    /\ metricsAdvertisementCount >= 3
    /\ timeOutMap = Addrs
    /\ \A mac \in Addrs : discoverMap[mac]

(* -------------------------------- C8 ----------------------------------- *)

\* C8 (as claimed): an iteration on a service-data element with the Xiaomi
\* signature whose payload length (declared length minus 1) is below 18,
\* with no earlier match, leaves the model Unknown and every reading absent.
C8_PayloadBelow18Unknown ==
    [][(/\ IterationStep
        /\ sensorData = NewSensorData
        /\ advDataModel' = 22
        /\ advDataLength' - 1 < 18
        /\ advDataLength' >= 3
        /\ advData'[1] = 149
        /\ advData'[2] = 254)
       => /\ sensorData'.Model = "Unknown"
          /\ PresentFields(sensorData') = {}]_vars

\* C8 (amended): an iteration on a service-data element with the Xiaomi
\* signature whose declared length is below 18 leaves sensorData as it was:
\* model Unknown, never Error, when no earlier element matched.
C8_DeclaredBelow18Unchanged ==
    [][(/\ IterationStep
        /\ advDataModel' = 22
        /\ advDataLength' < 18
        /\ advDataLength' >= 2
        /\ advData'[1] = 149
        /\ advData'[2] = 254)
       => /\ sensorData' = sensorData
          /\ sensorData = NewSensorData => sensorData'.Model = "Unknown"]_vars

\* A Xiaomi element of declared length 17 walked, the model still Unknown.
C8_Witness ==
    /\ LastIsXiaomiSigned
    /\ advDataLength = 17
    /\ sensorData.Model = "Unknown"

(* -------------------------------- C9 ----------------------------------- *)

\* C9 (as claimed): on a well-formed advertisement the walk never panics,
\* the payload it takes for an element is the length - 1 bytes from
\* cursor + 2 (all inside the data), and the cursor never passes the end.
C9_PayloadIsLengthMinusOne ==
    WellFormed(a) =>
        /\ pc # "panic"
        /\ packetPointer <= a.len
        /\ (Iterated /\ advDataLength >= 1) =>
              LET cursor == packetPointer - advDataLength - 1
              IN  /\ advData = SubSeq(a.bytes, cursor + 3, cursor + advDataLength + 1)
                  /\ cursor + advDataLength + 1 <= a.len

(* -------------------------------- C10 ---------------------------------- *)

\* C10 (as claimed): the SensorData the walk returns is the decode of one
\* single element of the advertisement, or the fresh Unknown reading.
C10_OneElementWins ==
    pc = "idle" =>
        \/ sensorData = NewSensorData
        \/ \E p \in ElementStarts(a) :
              LET length == At(a.bytes, p)
              IN  sensorData =
                      DecodeElement(NewSensorData, length, At(a.bytes, p + 1),
                                    SubSeq(a.bytes, p + 3, p + length + 2))

=============================================================================
